---- MODULE Spec2Model ----
(***************************************************************************)
(* Model of src/src/finite_state_automaton.rs: the compiler build_fsa that *)
(* turns per-(nonterminal, terminal) derivation trees into a finite-state  *)
(* automaton, the validating constructor new, and the queries simulate and *)
(* has_transition.                                                         *)
(***************************************************************************)
EXTENDS Integers, Sequences, FiniteSets, TLC

VARIABLES
    terminals, start_nt, rules, regex,      \* inputs of build_fsa; regex is atomic_regex.regex
    states, accepting_states, transitions, atomic_to_state,   \* the automaton under construction
    regex_to_state, highest_state,          \* memo table and state counter
    todo, cur,                              \* the for-loop over atomic_regex.regex
    regex_to_state_key, wordnode_queue, atomic_rules, node_end,   \* locals of one tree
    wordnode, node_start, groups_todo,      \* locals of one popped node
    group_rules, sub_states, opt_penultimate_state, words_todo,  \* locals of one rule group
    wordnodeword, source, carried_rules, index,   \* locals of one branch
    pc,                                     \* position in build_fsa / new
    first,                                  \* automaton returned by an earlier identical call
    arg, ret                                \* argument of new; result of the last call

inputVars == <<terminals, start_nt, rules, regex>>
fsaVars   == <<states, accepting_states, transitions, atomic_to_state>>
memoVars  == <<regex_to_state, highest_state>>
treeVars  == <<regex_to_state_key, wordnode_queue, atomic_rules, node_end>>
nodeVars  == <<wordnode, node_start, groups_todo>>
groupVars == <<group_rules, sub_states, opt_penultimate_state, words_todo>>
wordVars  == <<wordnodeword, source, carried_rules, index>>
vars == <<inputVars, fsaVars, memoVars, todo, cur, treeVars, nodeVars, groupVars,
          wordVars, pc, first, arg, ret>>

----------------------------------------------------------------------------
(* Option<T>: None is the empty sequence, Some(x) the one-element sequence. *)
None == <<>>
Some(x) == <<x>>

(* HashMap helpers: a map is a function whose DOMAIN is its key set.        *)
EmptyMap == <<>>
Put(m, k, v) == [x \in (DOMAIN m) \cup {k} |-> IF x = k THEN v ELSE m[x]]
Range(s) == {s[i] : i \in DOMAIN s}

(* Symbol: Terminal(t), Nonterminal(n), Epsilon.                            *)
SymT(t) == [k |-> "T", s |-> t]
SymN(n) == [k |-> "N", s |-> n]
SymE    == [k |-> "E", s |-> ""]

(* WordNodeSymbol: Terminal, Nonterminal, Epsilon, Rules(rule sequence).    *)
AT(t) == [k |-> "T", s |-> t, r |-> <<>>]
AN(n) == [k |-> "N", s |-> n, r |-> <<>>]
AE    == [k |-> "E", s |-> "", r |-> <<>>]
AR(rs) == [k |-> "R", s |-> "", r |-> rs]

(* The Symbol a non-rule atom is matched to (lines 238-243).                *)
AtomSymbol(a) == [k |-> a.k, s |-> a.s]

(* WordNode: an epsilon/rule node carrying an optional set of rule          *)
(* sequences, or a branching node with a star flag whose branches are       *)
(* grouped by the rule sequence completing them.                            *)
ENode(optset) == [e |-> TRUE, erules |-> optset, kleene_star |-> FALSE, groups |-> {}]
BNode(star, groups) == [e |-> FALSE, erules |-> None, kleene_star |-> star, groups |-> groups]
Group(rs, words) == [rules |-> rs, words |-> words]

(* wordnode.is_e_node_get_rules(): <<is epsilon/rule node, its rule set>>.  *)
is_e_node_get_rules(n) == <<n.e, n.erules>>
(* wordnode.get_by_base_rules(): the branches grouped by completion rules.  *)
get_by_base_rules(n) == n.groups
(* node.is_e_node_get_rules() on a whole tree: the tree is one e/rule node. *)
tree_is_e_node_get_rules(t) ==
    IF Len(t.nodes) = 1 /\ t.nodes[1].e THEN <<TRUE, t.nodes[1].erules>> ELSE <<FALSE, None>>

----------------------------------------------------------------------------
(* Bounded inputs.                                                          *)
MaxNodes == 3

nA    == BNode(FALSE, {Group(<<"r1">>, {<<AT("a")>>})})
nStar == BNode(TRUE,  {Group(<<"r2">>, {<<AT("b")>>})})
nE    == ENode(Some({<<"r3">>}))
nNT   == BNode(FALSE, {Group(<<"r1">>, {<<AT("a"), AN("A")>>, <<AN("A")>>})})
nTag  == BNode(FALSE, {Group(<<"r1">>, {<<AR(<<"r2">>), AT("a")>>}),
                       Group(<<"r2">>, {<<AE, AR(<<"r3">>)>>})})

Tree(ns) == [nodes |-> ns]
AllTrees ==
    { Tree(<<nE>>), Tree(<<nA>>), Tree(<<nStar>>), Tree(<<nStar, nA>>),
      Tree(<<nE, nE>>), Tree(<<nNT>>), Tree(<<nTag>>), Tree(<<nA, nE>>),
      Tree(<<nA, nE, nE>>), Tree(<<nA, nE, nE, nStar>>) }
TreeUniverse == {t \in AllTrees : Len(t.nodes) <= MaxNodes}

Keys == {<<"S", "a">>, <<"A", "a">>}

(* Grammars: S -> a S | eps, A -> b;  S -> A, A -> eps | a;  S -> a A, A -> a *)
GrammarUniverse ==
    { [terminals |-> {"a", "b"}, start_nt |-> "S",
       rules |-> [n \in {"S", "A"} |->
                    IF n = "S" THEN {<<SymE>>, <<SymT("a"), SymN("S")>>} ELSE {<<SymT("b")>>}]],
      [terminals |-> {"a"}, start_nt |-> "S",
       rules |-> [n \in {"S", "A"} |->
                    IF n = "S" THEN {<<SymN("A")>>} ELSE {<<SymE>>, <<SymT("a")>>}]],
      [terminals |-> {"a"}, start_nt |-> "S",
       rules |-> [n \in {"S", "A"} |->
                    IF n = "S" THEN {<<SymT("a"), SymN("A")>>} ELSE {<<SymT("a")>>}]] }

SymbolUniverse == {SymT("a"), SymT("b"), SymN("S"), SymN("A"), SymE}

----------------------------------------------------------------------------
(* build_fsa, lines 123-144: the two permanent states and the setup.        *)
start == 0
epsilon == 1

SetupAccepting(rs, nt) ==
    IF <<SymE>> \in rs[nt] THEN {epsilon, start} ELSE {epsilon}
SetupTransitions(nt) ==
    Put(EmptyMap, start, Put(EmptyMap, SymN(nt), {<<epsilon, None>>}))
SetupAtomic(ts) ==
    [key \in {<<SymT(t), t>> : t \in ts} |-> <<epsilon, None>>]

(* transitions.entry(src).or_default().entry(sym).or_default().insert(pair) *)
AddEdge(tr, src, sym, pair) ==
    LET inner == IF src \in DOMAIN tr THEN tr[src] ELSE EmptyMap
        dests == IF sym \in DOMAIN inner THEN inner[sym] ELSE {}
    IN  Put(tr, src, Put(inner, sym, dests \cup {pair}))

NoNode == ENode(None)

IdleTree  == /\ regex_to_state_key = <<>> /\ wordnode_queue = <<>>
             /\ atomic_rules = None /\ node_end = 0
IdleNode  == wordnode = NoNode /\ node_start = 0 /\ groups_todo = {}
IdleGroup == /\ group_rules = <<>> /\ sub_states = <<>>
             /\ opt_penultimate_state = None /\ words_todo = {}
IdleWord  == wordnodeword = <<>> /\ source = 0 /\ carried_rules = <<>> /\ index = 0

NoFsa == [none |-> TRUE]
NoRet == [op |-> "none"]
NoArg == [none |-> TRUE]

(* State of build_fsa when the loop over atomic_regex.regex is entered.     *)
BuildSetup(g, rx) ==
    /\ terminals = g.terminals /\ start_nt = g.start_nt /\ rules = g.rules
    /\ regex = rx
    /\ states = {start, epsilon}
    /\ accepting_states = SetupAccepting(g.rules, g.start_nt)
    /\ transitions = SetupTransitions(g.start_nt)
    /\ atomic_to_state = SetupAtomic(g.terminals)
    /\ regex_to_state = EmptyMap /\ highest_state = 1
    /\ todo = DOMAIN rx /\ cur = <<>>
    /\ IdleTree /\ IdleNode /\ IdleGroup /\ IdleWord
    /\ pc = "trees"

Init ==
    /\ \E g \in GrammarUniverse : \E rx \in [Keys -> TreeUniverse] : BuildSetup(g, rx)
    /\ first = NoFsa /\ arg = NoArg /\ ret = NoRet

----------------------------------------------------------------------------
(* for ((nonterminal, terminal), node) in atomic_regex.regex, lines 146-150 *)
TreeENode(key) ==
    /\ pc = "trees" /\ key \in todo
    /\ tree_is_e_node_get_rules(regex[key])[1]
    /\ todo' = todo \ {key}
    /\ atomic_to_state' = Put(atomic_to_state, <<SymN(key[1]), key[2]>>,
                              <<epsilon, tree_is_e_node_get_rules(regex[key])[2]>>)
    /\ UNCHANGED <<inputVars, states, accepting_states, transitions, memoVars, cur,
                   treeVars, nodeVars, groupVars, wordVars, pc, first, arg, ret>>

(* lines 152-156 *)
TreeBegin(key) ==
    /\ pc = "trees" /\ key \in todo
    /\ ~tree_is_e_node_get_rules(regex[key])[1]
    /\ todo' = todo \ {key}
    /\ cur' = key
    /\ regex_to_state_key' = <<>>
    /\ wordnode_queue' = regex[key].nodes
    /\ atomic_rules' = None
    /\ node_end' = 0
    /\ pc' = "nodes"
    /\ UNCHANGED <<inputVars, fsaVars, memoVars, nodeVars, groupVars, wordVars,
                   first, arg, ret>>

(* The node popped by `while let Some(wordnode) = wordnode_queue.pop()` and *)
(* the key after push_front, lines 158-161.                                 *)
Popped == wordnode_queue[Len(wordnode_queue)]
PoppedKey == <<Popped>> \o regex_to_state_key

(* lines 165-173: the key is in the memo table *)
NodeMemoHit ==
    /\ pc = "nodes" /\ wordnode_queue # <<>>
    /\ PoppedKey \in DOMAIN regex_to_state
    /\ wordnode_queue' = SubSeq(wordnode_queue, 1, Len(wordnode_queue) - 1)
    /\ IF is_e_node_get_rules(Popped)[1]
       THEN /\ atomic_rules' = is_e_node_get_rules(Popped)[2]
            /\ regex_to_state_key' = <<Popped>> \o PoppedKey
            /\ regex_to_state' = Put(regex_to_state, <<Popped>> \o PoppedKey,
                                     regex_to_state[PoppedKey])
       ELSE /\ regex_to_state_key' = PoppedKey
            /\ UNCHANGED <<atomic_rules, regex_to_state>>
    /\ UNCHANGED <<inputVars, fsaVars, highest_state, todo, cur, node_end, nodeVars,
                   groupVars, wordVars, pc, first, arg, ret>>

(* lines 175-184 and 201: the previous key is in the memo table *)
NodePrevHit ==
    /\ pc = "nodes" /\ wordnode_queue # <<>>
    /\ PoppedKey \notin DOMAIN regex_to_state
    /\ regex_to_state_key \in DOMAIN regex_to_state
    /\ wordnode_queue' = SubSeq(wordnode_queue, 1, Len(wordnode_queue) - 1)
    /\ regex_to_state_key' = PoppedKey
    /\ node_end' = regex_to_state[regex_to_state_key][1]
    /\ IF is_e_node_get_rules(Popped)[1]
       THEN /\ atomic_rules' = is_e_node_get_rules(Popped)[2]
            /\ regex_to_state' = Put(regex_to_state, PoppedKey,
                                     <<node_end', regex_to_state[regex_to_state_key][2]>>)
            /\ UNCHANGED <<highest_state, nodeVars, pc>>
       ELSE /\ highest_state' = highest_state + 1
            /\ node_start' = highest_state + 1
            /\ regex_to_state' = Put(regex_to_state, PoppedKey, <<node_start', node_end'>>)
            /\ wordnode' = Popped
            /\ groups_todo' = get_by_base_rules(Popped)
            /\ pc' = "groups"
            /\ UNCHANGED atomic_rules
    /\ UNCHANGED <<inputVars, fsaVars, todo, cur, groupVars, wordVars, first, arg, ret>>

(* lines 185-199 and 201: nothing of the suffix is in the memo table *)
NodeFresh ==
    /\ pc = "nodes" /\ wordnode_queue # <<>>
    /\ PoppedKey \notin DOMAIN regex_to_state
    /\ regex_to_state_key \notin DOMAIN regex_to_state
    /\ wordnode_queue' = SubSeq(wordnode_queue, 1, Len(wordnode_queue) - 1)
    /\ regex_to_state_key' = PoppedKey
    /\ IF is_e_node_get_rules(Popped)[1]
       THEN /\ highest_state' = highest_state + 1
            /\ atomic_rules' = is_e_node_get_rules(Popped)[2]
            /\ regex_to_state' = Put(regex_to_state, PoppedKey,
                                     <<highest_state + 1, highest_state + 1>>)
            /\ UNCHANGED <<node_end, nodeVars, pc>>
       ELSE /\ node_start' = highest_state + 1
            /\ IF Popped.kleene_star
               THEN node_end' = highest_state + 1 /\ highest_state' = highest_state + 1
               ELSE node_end' = highest_state + 2 /\ highest_state' = highest_state + 2
            /\ regex_to_state' = Put(regex_to_state, PoppedKey, <<node_start', node_end'>>)
            /\ wordnode' = Popped
            /\ groups_todo' = get_by_base_rules(Popped)
            /\ pc' = "groups"
            /\ UNCHANGED atomic_rules
    /\ UNCHANGED <<inputVars, fsaVars, todo, cur, groupVars, wordVars, first, arg, ret>>

(* lines 286-287: the queue of the tree is empty *)
TreeEnd ==
    /\ pc = "nodes" /\ wordnode_queue = <<>>
    /\ accepting_states' = accepting_states \cup {regex_to_state[regex_to_state_key][2]}
    /\ atomic_to_state' = Put(atomic_to_state, <<SymN(cur[1]), cur[2]>>,
                              <<regex_to_state[regex_to_state_key][1], atomic_rules>>)
    /\ cur' = <<>>
    /\ regex_to_state_key' = <<>> /\ atomic_rules' = None /\ node_end' = 0
    /\ pc' = "trees"
    /\ UNCHANGED <<inputVars, states, transitions, memoVars, todo, wordnode_queue,
                   nodeVars, groupVars, wordVars, first, arg, ret>>

(* for (rules, wordnodeword_set) in wordnode.get_by_base_rules(), lines 203-205 *)
GroupBegin(g) ==
    /\ pc = "groups" /\ g \in groups_todo
    /\ groups_todo' = groups_todo \ {g}
    /\ group_rules' = g.rules
    /\ sub_states' = <<node_start>>
    /\ opt_penultimate_state' = None
    /\ words_todo' = g.words
    /\ pc' = "words"
    /\ UNCHANGED <<inputVars, fsaVars, memoVars, todo, cur, treeVars, wordnode,
                   node_start, wordVars, first, arg, ret>>

(* the loop over the groups of the node is over, line 285 *)
NodeEnd ==
    /\ pc = "groups" /\ groups_todo = {}
    /\ wordnode' = NoNode /\ node_start' = 0
    /\ pc' = "nodes"
    /\ UNCHANGED <<inputVars, fsaVars, memoVars, todo, cur, treeVars, groups_todo,
                   groupVars, wordVars, first, arg, ret>>

(* for wordnodeword in wordnodeword_set, lines 206-209 *)
WordBegin(w) ==
    /\ pc = "words" /\ w \in words_todo
    /\ words_todo' = words_todo \ {w}
    /\ wordnodeword' = w
    /\ source' = node_start
    /\ carried_rules' = <<>>
    /\ index' = 0
    /\ pc' = "atoms"
    /\ UNCHANGED <<inputVars, fsaVars, memoVars, todo, cur, treeVars, nodeVars,
                   group_rules, sub_states, opt_penultimate_state, first, arg, ret>>

(* lines 278-281: the loop over the branches of the group is over *)
GroupEnd ==
    /\ pc = "words" /\ words_todo = {}
    /\ states' = states \cup Range(sub_states) \cup Range(opt_penultimate_state)
    /\ group_rules' = <<>> /\ sub_states' = <<>> /\ opt_penultimate_state' = None
    /\ pc' = "groups"
    /\ UNCHANGED <<inputVars, accepting_states, transitions, atomic_to_state, memoVars,
                   todo, cur, treeVars, nodeVars, words_todo, wordVars, first, arg, ret>>

(* lines 212-219: the chain of the group grows by one state when the branch *)
(* reaches its end; index counts from 0 as in the source.                   *)
ChainMints == index = Len(sub_states) - 1 /\ index # Len(wordnodeword) - 1
ChainAfterPush ==
    IF index = Len(sub_states) - 1
    THEN IF index = Len(wordnodeword) - 1
         THEN Append(sub_states, node_end)
         ELSE Append(sub_states, highest_state + 1)
    ELSE sub_states
CounterAfterPush == IF ChainMints THEN highest_state + 1 ELSE highest_state
(* target = sub_states[index+1], lines 223 and 246 *)
Target == ChainAfterPush[index + 2]

(* Faulty variant of RulesEdgeLabel: the carried rules put before the       *)
(* completion rules, as in the code commented out at line 229.              *)
RulesEdgeLabelSwapped(rs, carried) == carried \o rs

(* line 227: the rule sequence put on the epsilon edge of a rule-tag atom *)
RulesEdgeLabel(rs, carried) == rs \o carried
(* line 260: the rule sequence put on a terminal or epsilon edge into node_end *)
EndEdgeLabel(rs, carried) == rs \o carried
(* line 222 *)
Prepend(word_rules, carried) == word_rules \o carried

(* lines 221-235: the atom is WordNodeSymbol::Rules *)
AtomRules ==
    /\ pc = "atoms" /\ index < Len(wordnodeword)
    /\ wordnodeword[index + 1].k = "R"
    /\ sub_states' = ChainAfterPush
    /\ highest_state' = CounterAfterPush
    /\ IF Target = node_end
       THEN /\ transitions' = AddEdge(transitions, source, SymE,
                   <<Target, Some(RulesEdgeLabel(group_rules,
                        Prepend(wordnodeword[index + 1].r, carried_rules)))>>)
            /\ source' = Target
            /\ carried_rules' = <<>>
       ELSE /\ carried_rules' = Prepend(wordnodeword[index + 1].r, carried_rules)
            /\ UNCHANGED <<transitions, source>>
    /\ index' = index + 1
    /\ UNCHANGED <<inputVars, states, accepting_states, atomic_to_state, regex_to_state,
                   todo, cur, treeVars, nodeVars, group_rules, opt_penultimate_state,
                   words_todo, wordnodeword, pc, first, arg, ret>>

(* lines 249-256: the penultimate state of the group, minted on first use *)
Penultimate ==
    IF opt_penultimate_state # None THEN opt_penultimate_state[1] ELSE CounterAfterPush + 1

(* lines 236-275: the atom is a terminal, a nonterminal or epsilon *)
AtomEdge ==
    /\ pc = "atoms" /\ index < Len(wordnodeword)
    /\ wordnodeword[index + 1].k # "R"
    /\ sub_states' = ChainAfterPush
    /\ IF Target = node_end
       THEN /\ IF wordnodeword[index + 1].k = "N"
               THEN /\ opt_penultimate_state' = Some(Penultimate)
                    /\ highest_state' = IF opt_penultimate_state # None
                                        THEN CounterAfterPush ELSE CounterAfterPush + 1
                    /\ transitions' =
                         AddEdge(AddEdge(transitions, source,
                                         AtomSymbol(wordnodeword[index + 1]),
                                         <<Penultimate, Some(carried_rules)>>),
                                 Penultimate, SymE, <<Target, Some(group_rules)>>)
               ELSE /\ transitions' =
                         AddEdge(transitions, source, AtomSymbol(wordnodeword[index + 1]),
                                 <<Target, Some(EndEdgeLabel(group_rules, carried_rules))>>)
                    /\ highest_state' = CounterAfterPush
                    /\ UNCHANGED opt_penultimate_state
       ELSE /\ transitions' =
                 AddEdge(transitions, source, AtomSymbol(wordnodeword[index + 1]),
                         <<Target, IF Len(carried_rules) > 0 THEN Some(carried_rules) ELSE None>>)
            /\ highest_state' = CounterAfterPush
            /\ UNCHANGED opt_penultimate_state
    /\ carried_rules' = <<>>
    /\ source' = Target
    /\ index' = index + 1
    /\ UNCHANGED <<inputVars, states, accepting_states, atomic_to_state, regex_to_state,
                   todo, cur, treeVars, nodeVars, group_rules, words_todo, wordnodeword,
                   pc, first, arg, ret>>

(* the loop `for index in 0..wordnodeword.len()` is over, line 276 *)
WordEnd ==
    /\ pc = "atoms" /\ index = Len(wordnodeword)
    /\ wordnodeword' = <<>> /\ source' = 0 /\ carried_rules' = <<>> /\ index' = 0
    /\ pc' = "words"
    /\ UNCHANGED <<inputVars, fsaVars, memoVars, todo, cur, treeVars, nodeVars,
                   groupVars, first, arg, ret>>

(* line 290: the automaton is returned *)
Return ==
    /\ pc = "trees" /\ todo = {}
    /\ pc' = "done"
    /\ UNCHANGED <<inputVars, fsaVars, memoVars, todo, cur, treeVars, nodeVars,
                   groupVars, wordVars, first, arg, ret>>

Build ==
    \/ \E key \in Keys : TreeENode(key)
    \/ \E key \in Keys : TreeBegin(key)
    \/ NodeMemoHit
    \/ NodePrevHit
    \/ NodeFresh
    \/ TreeEnd
    \/ \E g \in groups_todo : GroupBegin(g)
    \/ NodeEnd
    \/ \E w \in words_todo : WordBegin(w)
    \/ GroupEnd
    \/ AtomRules
    \/ AtomEdge
    \/ WordEnd
    \/ Return

----------------------------------------------------------------------------
(* The query interface, lines 357-385; the automaton is the one returned.   *)
is_accepting(curr_state) == curr_state \in accepting_states

(* Faulty variant of simulate: the accepting flag taken from the current state      *)
(* instead of the destination.                                              *)
simulateFlagOfSource(curr_state, symbol) ==
    IF curr_state \notin DOMAIN transitions THEN None
    ELSE IF symbol \notin DOMAIN transitions[curr_state] THEN None
    ELSE Some({<<d[1], d[2], curr_state \in accepting_states>> :
                 d \in transitions[curr_state][symbol]})

simulate(curr_state, symbol) ==
    IF curr_state \notin DOMAIN transitions THEN None
    ELSE IF symbol \notin DOMAIN transitions[curr_state] THEN None
    ELSE Some({<<d[1], d[2], is_accepting(d[1])>> : d \in transitions[curr_state][symbol]})

(* Faulty variant of has_transition: the negation of is_empty() left out.           *)
has_transitionNotNegated(curr_state) ==
    IF curr_state \in DOMAIN transitions
    THEN DOMAIN transitions[curr_state] = {}
    ELSE FALSE

has_transition(curr_state) ==
    IF curr_state \in DOMAIN transitions
    THEN DOMAIN transitions[curr_state] # {}
    ELSE FALSE

(* State ids a caller may pass: the minted ones and one that was never minted. *)
QueryStates == 0 .. (highest_state + 1)

Simulate(s, sym) ==
    /\ pc = "done"
    /\ ret' = [op |-> "simulate", state |-> s, symbol |-> sym, val |-> simulate(s, sym)]
    /\ UNCHANGED <<inputVars, fsaVars, memoVars, todo, cur, treeVars, nodeVars,
                   groupVars, wordVars, pc, first, arg>>

HasTransition(s) ==
    /\ pc = "done"
    /\ ret' = [op |-> "has_transition", state |-> s, val |-> has_transition(s)]
    /\ UNCHANGED <<inputVars, fsaVars, memoVars, todo, cur, treeVars, nodeVars,
                   groupVars, wordVars, pc, first, arg>>

Query ==
    \/ \E s \in QueryStates : \E sym \in SymbolUniverse : Simulate(s, sym)
    \/ \E s \in QueryStates : HasTransition(s)

Next == Build \/ Query
Spec == Init /\ [][Next]_vars

----------------------------------------------------------------------------
(* A repeated identical call of build_fsa: the automaton of the first call  *)
(* is kept and the compiler starts again on the same inputs.                *)
Fsa == [states |-> states, accepting_states |-> accepting_states, start |-> start,
        transitions |-> transitions, atomic_to_state |-> atomic_to_state]

Restart ==
    /\ pc = "done" /\ first = NoFsa
    /\ first' = Fsa
    /\ states' = {start, epsilon}
    /\ accepting_states' = SetupAccepting(rules, start_nt)
    /\ transitions' = SetupTransitions(start_nt)
    /\ atomic_to_state' = SetupAtomic(terminals)
    /\ regex_to_state' = EmptyMap /\ highest_state' = 1
    /\ todo' = DOMAIN regex
    /\ pc' = "trees"
    /\ UNCHANGED <<inputVars, cur, treeVars, nodeVars, groupVars, wordVars, arg, ret>>

NextTwice == Build \/ Restart
SpecTwice == Init /\ [][NextTwice]_vars

----------------------------------------------------------------------------
(* The validating constructor new, lines 92-121.  Each loop returns the     *)
(* first offending state in the iteration order of a hash set or map, so    *)
(* any offending state of the first violated class may be reported.         *)
Err(variant, state) == [ok |-> FALSE, variant |-> variant, state |-> state]
Ok(st, acc, s, tr, at) ==
    [ok |-> TRUE, fsa |-> [states |-> st, accepting_states |-> acc, start |-> s,
                           transitions |-> tr, atomic_to_state |-> at]]

DestStates(tr) == UNION {UNION {{d[1] : d \in tr[s][sym]} : sym \in DOMAIN tr[s]} : s \in DOMAIN tr}
AtomicStates(at) == {at[key][1] : key \in DOMAIN at}

(* Faulty variant of new: the loop over the destination states left out.    *)
newWithoutDestCheck(st, acc, s, tr, at) ==
    IF s \notin st THEN {Err("StartNotInStates", s)}
    ELSE IF acc \ st # {} THEN {Err("AccNotInStates", x) : x \in acc \ st}
    ELSE IF (DOMAIN tr) \ st # {} THEN {Err("SrcNotInStates", x) : x \in (DOMAIN tr) \ st}
    ELSE IF AtomicStates(at) \ st # {}
         THEN {Err("AtomicStateNotInStates", x) : x \in AtomicStates(at) \ st}
    ELSE {Ok(st, acc, s, tr, at)}

new(st, acc, s, tr, at) ==
    IF s \notin st THEN {Err("StartNotInStates", s)}
    ELSE IF acc \ st # {} THEN {Err("AccNotInStates", x) : x \in acc \ st}
    ELSE IF (DOMAIN tr) \ st # {} THEN {Err("SrcNotInStates", x) : x \in (DOMAIN tr) \ st}
    ELSE IF DestStates(tr) \ st # {} THEN {Err("DestNotInStates", x) : x \in DestStates(tr) \ st}
    ELSE IF AtomicStates(at) \ st # {}
         THEN {Err("AtomicStateNotInStates", x) : x \in AtomicStates(at) \ st}
    ELSE {Ok(st, acc, s, tr, at)}

(* Bounded arguments of new. *)
MaxId == 2
Ids == 0 .. MaxId
TransUniverse ==
    {EmptyMap}
    \cup {Put(EmptyMap, s, EmptyMap) : s \in Ids}
    \cup {Put(EmptyMap, s[1], Put(EmptyMap, SymT("a"), s[2])) :
            s \in Ids \X ({{}} \cup {{<<d, None>>} : d \in Ids})}
AtomicUniverse ==
    {EmptyMap} \cup {Put(EmptyMap, <<SymN("S"), "a">>, <<s, None>>) : s \in Ids}
ArgUniverse ==
    [states : SUBSET Ids, accepting_states : SUBSET Ids, start : Ids,
     transitions : TransUniverse, atomic_to_state : AtomicUniverse]

InitNew ==
    /\ arg \in ArgUniverse
    /\ ret = NoRet /\ first = NoFsa
    /\ pc = "new"
    /\ terminals = {} /\ start_nt = "" /\ rules = EmptyMap /\ regex = EmptyMap
    /\ states = {} /\ accepting_states = {} /\ transitions = EmptyMap
    /\ atomic_to_state = EmptyMap
    /\ regex_to_state = EmptyMap /\ highest_state = 1
    /\ todo = {} /\ cur = <<>>
    /\ IdleTree /\ IdleNode /\ IdleGroup /\ IdleWord

NewCall ==
    /\ pc = "new"
    /\ \E r \in new(arg.states, arg.accepting_states, arg.start, arg.transitions,
                    arg.atomic_to_state) :
          ret' = [op |-> "new", val |-> r]
    /\ pc' = "returned"
    /\ UNCHANGED <<inputVars, fsaVars, memoVars, todo, cur, treeVars, nodeVars,
                   groupVars, wordVars, first, arg>>

NextNew == NewCall
SpecNew == InitNew /\ [][NextNew]_vars

----------------------------------------------------------------------------
(* Derived views used by the properties below.                              *)
EdgesOf(tr) ==
    UNION {UNION {{<<s, sym, d[1], d[2]>> : d \in tr[s][sym]} : sym \in DOMAIN tr[s]}
           : s \in DOMAIN tr}
Edges == EdgesOf(transitions)
Minted == 0 .. highest_state
Done == pc = "done"

(* C1: every automaton returned by build_fsa satisfies the five structural  *)
(* invariants (start, accepting states, transition sources, transition      *)
(* destinations and atomic entry states are all in states), and every state *)
(* id the compiler minted is in states when the automaton is returned.      *)
C1_ReturnedAutomatonWellFormed ==
    Done =>
        /\ start \in states
        /\ accepting_states \subseteq states
        /\ DOMAIN transitions \subseteq states
        /\ DestStates(transitions) \subseteq states
        /\ AtomicStates(atomic_to_state) \subseteq states
        /\ Minted \subseteq states

(* The nonterminals of the grammar that derive the empty string, directly   *)
(* or through nonterminals that do.                                         *)
NullableStep(S) ==
    {n \in DOMAIN rules :
        \E rhs \in rules[n] :
            \A i \in DOMAIN rhs : rhs[i] = SymE \/ (rhs[i].k = "N" /\ rhs[i].s \in S)}
RECURSIVE NullableFrom(_)
NullableFrom(S) == IF NullableStep(S) \subseteq S THEN S ELSE NullableFrom(S \cup NullableStep(S))
Nullable == NullableFrom({})

(* C5: in every automaton returned by build_fsa the start state is          *)
(* accepting whenever the start nonterminal derives the empty string,       *)
(* directly or through other nonterminals, and the epsilon state is always  *)
(* accepting.                                                               *)
C5_StartAcceptingWhenNullable ==
    Done => /\ (start_nt \in Nullable => start \in accepting_states)
            /\ epsilon \in accepting_states

(* C6: every node whose star flag is set is compiled with its start state   *)
(* equal to its end state, wherever it stands in the node sequence.         *)
C6_StarNodeStartIsEnd ==
    (pc \in {"groups", "words", "atoms"} /\ wordnode.kleene_star) => node_start = node_end

(* C7: for every branch whose last atom is a nonterminal, the nonterminal   *)
(* edge leads to an inserted penultimate state carrying only the carried    *)
(* rules, and the completion rules of the group are on an epsilon edge from *)
(* that penultimate state to the end state of the node; no other edge is    *)
(* added for that atom.  This holds whatever branches of the same group     *)
(* were processed before.                                                   *)
C7_NonterminalEndsAtPenultimate ==
    [][ (pc = "atoms" /\ index = Len(wordnodeword) - 1 /\ wordnodeword[index + 1].k = "N")
        => /\ opt_penultimate_state' # None
           /\ opt_penultimate_state'[1] \notin Range(sub_states')
           /\ <<source, AtomSymbol(wordnodeword[index + 1]), opt_penultimate_state'[1],
                Some(carried_rules)>> \in EdgesOf(transitions')
           /\ <<opt_penultimate_state'[1], SymE, node_end, Some(group_rules)>>
                \in EdgesOf(transitions')
           /\ EdgesOf(transitions') \ Edges \subseteq
                { <<source, AtomSymbol(wordnodeword[index + 1]), opt_penultimate_state'[1],
                    Some(carried_rules)>>,
                  <<opt_penultimate_state'[1], SymE, node_end, Some(group_rules)>> }
      ]_vars

(* The node suffixes the compiler has already been through in this call:    *)
(* those of the trees compiled before and the shorter ones of this tree.    *)
SuffixesOf(ns) == {SubSeq(ns, i, Len(ns)) : i \in 1 .. Len(ns)}
CompiledTrees == {key \in (Keys \ todo) \ {cur} : ~tree_is_e_node_get_rules(regex[key])[1]}
CompiledSuffixes ==
    UNION {SuffixesOf(regex[key].nodes) : key \in CompiledTrees}
    \cup {SubSeq(regex[cur].nodes, i, Len(regex[cur].nodes)) :
            i \in (Len(wordnode_queue) + 1) .. Len(regex[cur].nodes)}
SuffixAfterPop == SubSeq(regex[cur].nodes, Len(wordnode_queue), Len(regex[cur].nodes))

(* C8: when the node suffix reached by a pop is identical to a suffix       *)
(* already compiled in this call, the compiler goes on to the next node     *)
(* without minting a state and without adding a transition for it.          *)
C8_CompiledSuffixIsReused ==
    [][ (pc = "nodes" /\ wordnode_queue # <<>> /\ SuffixAfterPop \in CompiledSuffixes)
        => /\ highest_state' = highest_state
           /\ transitions' = transitions
           /\ pc' = "nodes"
      ]_vars

(* Isomorphism of two automata: a bijection on the state ids they mention   *)
(* that maps start, states, accepting set, transition table and atomic      *)
(* entry table of one onto the other.                                       *)
AllStatesOf(A) ==
    A.states \cup A.accepting_states \cup {A.start} \cup (DOMAIN A.transitions)
    \cup DestStates(A.transitions) \cup AtomicStates(A.atomic_to_state)

Signature(A, s) ==
    << s = A.start, s \in A.accepting_states, s \in A.states, s \in DOMAIN A.transitions,
       {<<e[2], e[4]>> : e \in {x \in EdgesOf(A.transitions) : x[1] = s}},
       {<<e[2], e[4]>> : e \in {x \in EdgesOf(A.transitions) : x[3] = s}},
       {key \in DOMAIN A.atomic_to_state : A.atomic_to_state[key][1] = s} >>

MapsOnto(f, A, B) ==
    /\ f[A.start] = B.start
    /\ {f[x] : x \in A.states} = B.states
    /\ {f[x] : x \in A.accepting_states} = B.accepting_states
    /\ {f[x] : x \in DOMAIN A.transitions} = DOMAIN B.transitions
    /\ {<<f[e[1]], e[2], f[e[3]], e[4]>> : e \in EdgesOf(A.transitions)}
         = EdgesOf(B.transitions)
    /\ DOMAIN A.atomic_to_state = DOMAIN B.atomic_to_state
    /\ \A key \in DOMAIN A.atomic_to_state :
          B.atomic_to_state[key] = <<f[A.atomic_to_state[key][1]], A.atomic_to_state[key][2]>>

RECURSIVE ExtendsToIso(_, _, _, _)
ExtendsToIso(f, rest, A, B) ==
    IF rest = {} THEN MapsOnto(f, A, B)
    ELSE LET a == CHOOSE x \in rest : TRUE
         IN  \E b \in {y \in AllStatesOf(B) \ Range(f) : Signature(B, y) = Signature(A, a)} :
                ExtendsToIso(Put(f, a, b), rest \ {a}, A, B)

Isomorphic(A, B) ==
    /\ Cardinality(AllStatesOf(A)) = Cardinality(AllStatesOf(B))
    /\ ExtendsToIso(EmptyMap, AllStatesOf(A), A, B)

(* C9: two calls of build_fsa on the same inputs return isomorphic          *)
(* automata, whatever order the trees, the rule groups and the branches of  *)
(* a group are iterated in.                                                 *)
C9_RepeatedCallIsomorphic ==
    (Done /\ first # NoFsa) => Isomorphic(first, Fsa)

Offenders(a) ==
    [c \in {"StartNotInStates", "AccNotInStates", "SrcNotInStates", "DestNotInStates",
            "AtomicStateNotInStates"} |->
        CASE c = "StartNotInStates" -> {a.start} \ a.states
          [] c = "AccNotInStates" -> a.accepting_states \ a.states
          [] c = "SrcNotInStates" -> (DOMAIN a.transitions) \ a.states
          [] c = "DestNotInStates" -> DestStates(a.transitions) \ a.states
          [] OTHER -> AtomicStates(a.atomic_to_state) \ a.states]
ViolatedClasses(a) == {c \in DOMAIN Offenders(a) : Offenders(a)[c] # {}}

(* C2: new is sound for each of the five invariant classes: an argument     *)
(* violating exactly one class fails with the error of that class carrying  *)
(* an offending state that is not in states; an argument violating none     *)
(* returns an automaton whose five fields equal the arguments.              *)
C2_ValidatorSound ==
    ret.op = "new" =>
        /\ Cardinality(ViolatedClasses(arg)) = 1 =>
              /\ ~ret.val.ok
              /\ ret.val.variant \in ViolatedClasses(arg)
              /\ ret.val.state \in Offenders(arg)[ret.val.variant]
              /\ ret.val.state \notin arg.states
        /\ ViolatedClasses(arg) = {} => (ret.val.ok /\ ret.val.fsa = arg)

(* new has rejected an argument whose only fault is a transition into a     *)
(* state that is not in states.                                             *)
C2_Witness ==
    /\ ret.op = "new"
    /\ ViolatedClasses(arg) = {"DestNotInStates"}
    /\ ~ret.val.ok /\ ret.val.variant = "DestNotInStates"

(* C3: simulate on (state, symbol) returns exactly the triples              *)
(* (destination, rule sequence, destination is accepting) of the            *)
(* transitions stored from state on that symbol, returns none if and only   *)
(* if there is no such transition, never returns a present-but-empty set,   *)
(* and leaves the automaton unchanged.                                      *)
C3_SimulateExact ==
    /\ [](ret.op = "simulate" =>
            LET out == {e \in Edges : e[1] = ret.state /\ e[2] = ret.symbol}
            IN  /\ (ret.val = None) <=> (out = {})
                /\ ret.val # None =>
                      /\ ret.val[1] = {<<e[3], e[4], e[3] \in accepting_states>> : e \in out}
                      /\ ret.val[1] # {})
    /\ [][(pc = "done" /\ ret'.op = "simulate") => UNCHANGED <<fsaVars, memoVars>>]_vars

(* simulate has returned, for a state other than start, a transition that   *)
(* carries rules into an accepting state.                                   *)
C3_Witness ==
    /\ ret.op = "simulate" /\ ret.val # None /\ ret.state # start
    /\ \E t \in ret.val[1] : t[3] /\ t[2] # None

(* C4: has_transition returns true for a state if and only if at least one  *)
(* transition leaves that state, that is if and only if simulate returns a  *)
(* non-empty set for at least one symbol.                                   *)
C4_HasTransitionIffEdge ==
    ret.op = "has_transition" =>
        /\ ret.val <=> (\E e \in Edges : e[1] = ret.state)
        /\ ret.val <=> (\E sym \in SymbolUniverse :
                           simulate(ret.state, sym) # None /\ simulate(ret.state, sym)[1] # {})

(* has_transition has answered true for a state the compiler minted.        *)
C4_Witness ==
    /\ ret.op = "has_transition" /\ ret.val /\ ret.state \in states \ {start, epsilon}

====
